---- MODULE Spec2Model ----
(***************************************************************************)
(* Model of src/app.py: the two TTL caches (_price_cache, _klines_cache),  *)
(* the cached Binance clients get_price and get_klines, and the threads of *)
(* the Dash server that run them on behalf of the callbacks.               *)
(*                                                                         *)
(* A call is split at the points where another thread can run: the cache   *)
(* lookup, the HTTP round trip (the response is parsed and the clock read  *)
(* when it arrives), and the dictionary store.                             *)
(***************************************************************************)
EXTENDS Integers, Sequences, FiniteSets, TLC

\* ------------------------------------------------------------- bounds

\* The clock runs from 0 to MaxTime seconds.
MaxTime == 120
\* A klines payload holds at most MaxKlines records.
MaxKlines == 2
\* At most MaxCalls calls are started in a run of calls made one after another.
MaxCalls == 2
\* At most MaxOverlap calls are started in a run whose calls may overlap.
MaxOverlap == 2
\* The period mapping is explored for days in 1..MaxDays.
MaxDays == 170
\* Number of server threads that can run a callback at the same time.
NThreads == 2
\* At most MaxInvocations callbacks are invoked in a run of the callbacks.
MaxInvocations == 3
\* The refresh timers are followed for MaxSchedule seconds.
MaxSchedule == 600
\* The first tab is followed second by second for MaxSeconds seconds.
MaxSeconds == 125

\* ---------------------------------------------------- program constants

\* get_price(symbol, ttl=20)
PRICE_TTL == 20
\* get_klines(symbol, days, ttl=120)
KLINES_TTL == 120
\* min(1000, ...) in get_klines
LIMIT_CAP == 1000
\* period of tick-price and of the countdown, in seconds
REFRESH_SECONDS == 60
\* period of tick-hist, in seconds
HIST_REFRESH_SECONDS == 300

\* Two of the COINS and two of the DAYS_OPTIONS (one on each side of days <= 7).
Symbols == {"BTCUSDT", "ETHUSDT"}
Days == {7, 30}
Threads == 1..NThreads
\* The amounts by which time.time() advances between steps: up to and past
\* each ttl when calls follow one another, one price timer period
\* (REFRESH_SECONDS) when they overlap.
ClockSteps == {20, 100}
TimerSteps == {60}
\* Steps that divide both periods and both ttls where the refresh timers run.
ScheduleSteps == {20}
\* One second at a time where the 1-second timer runs.
SecondSteps == {1}

\* ------------------------------------------------------ Python values

\* None, and a value that is not None.
None == <<>>
Some(v) == <<v>>
Val(o) == o[1]

Min(a, b) == IF a <= b THEN a ELSE b

\* dict.get(key): the entry, or None
CacheGet(cache, key) == IF key \in DOMAIN cache THEN Some(cache[key]) ELSE None

\* dict[key] = e
CachePut(cache, key, e) ==
  [k \in (DOMAIN cache) \cup {key} |-> IF k = key THEN e ELSE cache[k]]

EmptyDict == [k \in {} |-> 0]

\* float(s) for the strings the payloads carry, in millionths; the strings
\* outside the table make float() raise ValueError.
FloatTable == [s \in {"1.5", "2"} |-> IF s = "1.5" THEN 1500000 ELSE 2000000]
CanFloat(s) == s \in DOMAIN FloatTable
FloatOf(s) == FloatTable[s]

\* datetime.fromtimestamp(ms / 1000, tz=timezone.utc): seconds and microseconds
FromTimestampMs(ms) == [sec |-> ms \div 1000, usec |-> (ms % 1000) * 1000]

\* r.text[:200]
Snippet(text) == IF Len(text) <= 200 THEN text ELSE SubSeq(text, 1, 200)

\* ---------------------------------------------------------- responses

\* What requests.get and r.json() can produce: exc is the class of the
\* exception requests.get raises ("" when it returns), decodes says whether
\* r.json() returns (json) or raises.
Resp(exc, status, text, decodes, json) ==
  [exc |-> exc, status |-> status, text |-> text, decodes |-> decodes, json |-> json]

NoResp == Resp("", 0, "", FALSE, <<>>)

TransportErrors == {"ConnectionError"}
BadStatuses == {500}

PriceObjects ==
  {[price |-> "1.5"], [price |-> "2"], [price |-> "abc"], [msg |-> "x"]}

PriceResponses ==
  {Resp(e, 0, "", FALSE, <<>>) : e \in TransportErrors}
  \cup {Resp("", st, "oops", FALSE, <<>>) : st \in BadStatuses}
  \cup {Resp("", 200, "<html>", FALSE, <<>>)}
  \cup {Resp("", 200, "{}", TRUE, o) : o \in PriceObjects}

\* A kline is the list [open time (ms), open, high, low, close, ...]; the
\* second is cut short and the third carries a close that is no number.
KlineRecords ==
  { <<3600500, "1", "2", "1", "1.5">>,
    <<7200000>>,
    <<7200000, "1", "2", "1", "abc">> }

KlineLists == UNION {[1..n -> KlineRecords] : n \in 0..MaxKlines}

KlinesResponses ==
  {Resp(e, 0, "", FALSE, <<>>) : e \in TransportErrors}
  \cup {Resp("", st, "oops", FALSE, <<>>) : st \in BadStatuses}
  \cup {Resp("", 200, "<html>", FALSE, <<>>)}
  \cup {Resp("", 200, "[]", TRUE, l) : l \in KlineLists}

\* What the remote API answers when it answers a request as asked: the price
\* of the symbol asked for, and candles of the symbol and interval asked for,
\* opening one interval after another (0 < n <= MaxKlines of them).
ServerPriceOf(symbol) == IF symbol = "BTCUSDT" THEN "1.5" ELSE "2"
ServerIntervalMs(interval) == IF interval = "1h" THEN 3600000 ELSE 14400000

ServerResponses(q) ==
  {Resp(e, 0, "", FALSE, <<>>) : e \in TransportErrors}
  \cup (IF q.url = "/api/v3/ticker/price"
          THEN {Resp("", 200, "{}", TRUE,
                     [symbol |-> q.params.symbol, price |-> ServerPriceOf(q.params.symbol)])}
          ELSE {Resp("", 200, "[]", TRUE,
                     [i \in 1..n |-> <<i * ServerIntervalMs(q.params.interval), "1", "2", "1",
                                       ServerPriceOf(q.params.symbol)>>]) :
                  n \in 1..Min(MaxKlines, q.params.limit)})

\* One response for each way a call can end, for the runs with overlapping
\* calls: the transport's exception, a bad status, an empty list, and the
\* payloads that parse.
OverlapPriceResponses ==
  {r \in PriceResponses :
     \/ r.exc # ""
     \/ r.status # 200
     \/ r.decodes /\ "price" \in DOMAIN r.json /\ r.json.price \in {"1.5", "2"}}

OverlapKlinesResponses ==
  {r \in KlinesResponses :
     \/ r.exc # ""
     \/ r.status # 200
     \/ r.decodes /\ \A i \in 1..Len(r.json) : Len(r.json[i]) = 5 /\ r.json[i][5] = "1.5"}

\* The payload of a 200 response is one the function can use.
PayloadOk(fn, resp) ==
  /\ resp.decodes
  /\ IF fn = "get_price"
       THEN "price" \in DOMAIN resp.json /\ CanFloat(resp.json.price)
       ELSE /\ Len(resp.json) > 0
            /\ \A i \in 1..Len(resp.json) :
                 Len(resp.json[i]) >= 5 /\ CanFloat(resp.json[i][5])

\* The transport's exception and one payload that parses, for the runs that
\* follow the timers.
TimerPriceResponses ==
  {r \in PriceResponses :
     \/ r.exc # ""
     \/ r.decodes /\ "price" \in DOMAIN r.json /\ r.json.price = "1.5"}

TimerKlinesResponses ==
  {r \in KlinesResponses :
     \/ r.exc # ""
     \/ r.decodes /\ Len(r.json) = 1 /\ PayloadOk("get_klines", r)}

\* -------------------------------------------------------------- state

VARIABLES
  now,           \* time.time(), in seconds
  price_cache,   \* _price_cache: symbol -> [ts, price]
  klines_cache,  \* _klines_cache: <<symbol, days>> -> [ts, data]
  pc,            \* where each thread stands in its call
  args,          \* the arguments of each thread's running call
  c,             \* the local c of each thread's running call
  req,           \* the HTTP request each thread has in flight, or None
  pend,          \* the result and entry a thread has computed and not yet stored
  ret,           \* what the last step returned to its caller (NoRet: nothing)
  calls,         \* number of calls started
  page,          \* the page in the browser: its timers and dropdowns
  cb,            \* the callback each thread runs
  out,           \* what the callback that returned in the last step returned
  api,           \* how the remote API answers: "any" way, or always "ok"
  late           \* history: a fetch has stored its entry more than period - ttl
                 \* seconds after its callback was invoked

vars == <<now, price_cache, klines_cache, pc, args, c, req, pend, ret, calls,
          page, cb, out, api, late>>

\* The state of the dashboard around the two cached clients.
dash == <<page, cb, out, api, late>>

NoArgs == [fn |-> "none", sym |-> "", days |-> 0]
NoPend == [value |-> None, err |-> "", store |-> None, resp |-> NoResp]

\* ------------------------------------------------------------ get_price

\* Mutants of Fresh: the comparison turned round, and the boundary included.
MutFreshInverted(e, t, ttl) == e # None /\ (t - Val(e).ts > ttl)
MutFreshInclusive(e, t, ttl) == e # None /\ (t - Val(e).ts <= ttl)

\* if c and (_now() - c["ts"] < ttl)
Fresh(e, t, ttl) == e # None /\ (t - Val(e).ts < ttl)

\* Mutant of PriceRequest: the request is made for the default symbol.
MutPriceRequestDefaultSymbol(symbol) ==
  [url |-> "/api/v3/ticker/price", params |-> [symbol |-> "BTCUSDT"]]

PriceRequest(symbol) ==
  [url |-> "/api/v3/ticker/price", params |-> [symbol |-> symbol]]

\* The outcome of a try block: exc is the class of the exception that leaves
\* it ("" when it returns value, err and, for a success, the entry to store).
TryReturn(value, err, store) ==
  [exc |-> "", value |-> value, err |-> err, store |-> store]
TryRaise(exc) == [exc |-> exc, value |-> None, err |-> "", store |-> None]

\* Mutant of PriceTry: the entry is stamped with the seconds within a
\* 100 s window instead of the time.
MutPriceTryWrappedStamp(resp, t) ==
  IF resp.exc # "" THEN TryRaise(resp.exc)
  ELSE IF resp.status # 200
    THEN TryReturn(None,
           "Binance HTTP " \o ToString(resp.status) \o ": " \o Snippet(resp.text),
           None)
  ELSE IF ~resp.decodes THEN TryRaise("JSONDecodeError")
  ELSE IF "price" \notin DOMAIN resp.json THEN TryRaise("KeyError")
  ELSE IF ~CanFloat(resp.json.price) THEN TryRaise("ValueError")
  ELSE LET price == FloatOf(resp.json.price)
       IN TryReturn(Some(price), "", Some([ts |-> t % 100, price |-> price]))

\* The try block of get_price, given the response and the clock at its arrival.
PriceTry(resp, t) ==
  IF resp.exc # "" THEN TryRaise(resp.exc)
  ELSE IF resp.status # 200
    THEN TryReturn(None,
           "Binance HTTP " \o ToString(resp.status) \o ": " \o Snippet(resp.text),
           None)
  ELSE IF ~resp.decodes THEN TryRaise("JSONDecodeError")
  ELSE IF "price" \notin DOMAIN resp.json THEN TryRaise("KeyError")
  ELSE IF ~CanFloat(resp.json.price) THEN TryRaise("ValueError")
  ELSE LET price == FloatOf(resp.json.price)
       IN TryReturn(Some(price), "", Some([ts |-> t, price |-> price]))

\* Mutant of PriceExcept: no message when there is nothing to fall back on.
MutPriceExceptNoMessage(e, exc) ==
  IF e # None
    THEN [value |-> Some(Val(e).price),
          err |-> "Error consultando Binance (" \o exc \o "). Mostrando ultimo valor."]
    ELSE [value |-> None, err |-> ""]

\* except Exception as e: of get_price ("ultimo" stands for the accented word)
PriceExcept(e, exc) ==
  IF e # None
    THEN [value |-> Some(Val(e).price),
          err |-> "Error consultando Binance (" \o exc \o "). Mostrando ultimo valor."]
    ELSE [value |-> None, err |-> "Error consultando Binance (" \o exc \o ")."]

\* Mutant of Catches: except requests.RequestException
MutCatchesTransportOnly(exc) == exc \in TransportErrors

\* except Exception: every exception class the try blocks raise derives from it
Catches(exc) == TRUE

\* Mutant of PriceFetch: serving the stored price after a failure stamps it anew.
MutPriceFetchRefreshesStale(e, resp, t) ==
  LET r == PriceTry(resp, t)
  IN IF r.exc = ""
       THEN [value |-> r.value, err |-> r.err, raised |-> FALSE, store |-> r.store]
     ELSE [value |-> PriceExcept(e, r.exc).value, err |-> PriceExcept(e, r.exc).err,
           raised |-> FALSE,
           store |-> IF e = None THEN None ELSE Some([ts |-> t, price |-> Val(e).price])]

\* get_price from the request on: value and err returned (or raised), and
\* the entry to store before returning.
PriceFetch(e, resp, t) ==
  LET r == PriceTry(resp, t)
  IN IF r.exc = ""
       THEN [value |-> r.value, err |-> r.err, raised |-> FALSE, store |-> r.store]
     ELSE IF Catches(r.exc)
       THEN [value |-> PriceExcept(e, r.exc).value, err |-> PriceExcept(e, r.exc).err,
             raised |-> FALSE, store |-> None]
     ELSE [value |-> None, err |-> "", raised |-> TRUE, store |-> None]

\* ----------------------------------------------------------- get_klines

\* Mutant of KlinesKey: the entry is filed under the symbol alone.
MutKlinesKeySymbolOnly(symbol, days) == <<symbol, 0>>

\* key = (symbol, days)
KlinesKey(symbol, days) == <<symbol, days>>

\* Mutant of KlinesParams: the limit is not capped.
MutKlinesParamsNoCap(days) ==
  IF days <= 7
    THEN [interval |-> "1h", limit |-> days * 24]
    ELSE [interval |-> "4h", limit |-> days * 6]

\* interval and limit of the request for a period
KlinesParams(days) ==
  IF days <= 7
    THEN [interval |-> "1h", limit |-> Min(LIMIT_CAP, days * 24)]
    ELSE [interval |-> "4h", limit |-> Min(LIMIT_CAP, days * 6)]

KlinesRequest(symbol, days) ==
  [url |-> "/api/v3/klines",
   params |-> [symbol |-> symbol, interval |-> KlinesParams(days).interval,
               limit |-> KlinesParams(days).limit]]

\* The exception float(k[4]) raises for a record, "" when it returns.
CloseError(k) ==
  IF Len(k) < 5 THEN "IndexError" ELSE IF ~CanFloat(k[5]) THEN "ValueError" ELSE ""

\* The exception the two list comprehensions raise, "" when both complete:
\* xs is built first (k[0] of every record), then ys.
ParseError(klines) ==
  IF \E i \in 1..Len(klines) : Len(klines[i]) < 1 THEN "IndexError"
  ELSE IF \A i \in 1..Len(klines) : CloseError(klines[i]) = "" THEN ""
  ELSE LET bad == {i \in 1..Len(klines) : CloseError(klines[i]) # ""}
           first == CHOOSE i \in bad : \A j \in bad : i <= j
       IN CloseError(klines[first])

ParseXs(klines) == [i \in 1..Len(klines) |-> FromTimestampMs(klines[i][1])]
ParseYs(klines) == [i \in 1..Len(klines) |-> FloatOf(klines[i][5])]

\* Mutant of KlinesTry: no check for an empty list.
MutKlinesTryNoEmptyCheck(resp, t) ==
  IF resp.exc # "" THEN TryRaise(resp.exc)
  ELSE IF resp.status # 200
    THEN TryReturn(None,
           "Binance HTTP " \o ToString(resp.status) \o ": " \o Snippet(resp.text),
           None)
  ELSE IF ~resp.decodes THEN TryRaise("JSONDecodeError")
  ELSE IF ParseError(resp.json) # "" THEN TryRaise(ParseError(resp.json))
  ELSE LET data == [xs |-> ParseXs(resp.json), ys |-> ParseYs(resp.json)]
       IN TryReturn(Some(data), "", Some([ts |-> t, data |-> data]))

\* The try block of get_klines.
KlinesTry(resp, t) ==
  IF resp.exc # "" THEN TryRaise(resp.exc)
  ELSE IF resp.status # 200
    THEN TryReturn(None,
           "Binance HTTP " \o ToString(resp.status) \o ": " \o Snippet(resp.text),
           None)
  ELSE IF ~resp.decodes THEN TryRaise("JSONDecodeError")
  ELSE IF Len(resp.json) = 0 THEN TryReturn(None, "Sin datos de klines.", None)
  ELSE IF ParseError(resp.json) # "" THEN TryRaise(ParseError(resp.json))
  ELSE LET data == [xs |-> ParseXs(resp.json), ys |-> ParseYs(resp.json)]
       IN TryReturn(Some(data), "", Some([ts |-> t, data |-> data]))

\* except Exception as e: of get_klines
KlinesExcept(e, exc) ==
  IF e # None
    THEN [value |-> Some(Val(e).data),
          err |-> "Error consultando klines (" \o exc \o "). Mostrando cache."]
    ELSE [value |-> None, err |-> "Error consultando klines (" \o exc \o ")."]

KlinesFetch(e, resp, t) ==
  LET r == KlinesTry(resp, t)
  IN IF r.exc = ""
       THEN [value |-> r.value, err |-> r.err, raised |-> FALSE, store |-> r.store]
     ELSE IF Catches(r.exc)
       THEN [value |-> KlinesExcept(e, r.exc).value, err |-> KlinesExcept(e, r.exc).err,
             raised |-> FALSE, store |-> None]
     ELSE [value |-> None, err |-> "", raised |-> TRUE, store |-> None]

\* ------------------------------------------------------------ callbacks

\* f"{n:,}" for a natural number
RECURSIVE ZeroPad(_, _)
ZeroPad(str, width) == IF Len(str) >= width THEN str ELSE ZeroPad("0" \o str, width)

RECURSIVE Thousands(_)
Thousands(n) ==
  IF n < 1000 THEN ToString(n)
  ELSE Thousands(n \div 1000) \o "," \o ZeroPad(ToString(n % 1000), 3)

\* Mutant of FormatPrice: the decimals are not padded to six digits.
MutFormatPriceNoPad(price) ==
  Thousands(price \div 1000000) \o "." \o ToString(price % 1000000)

\* f"{price:,.6f}" for a price held in millionths
FormatPrice(price) ==
  Thousands(price \div 1000000) \o "." \o ZeroPad(ToString(price % 1000000), 6)

\* The placeholder of actualizar_precio (an em dash in the source).
Placeholder == "-"

\* actualizar_precio(_, symbol), given what get_price(symbol) returned:
\* the outputs precio.children and error-precio.children
actualizar_precio(symbol, value, err) ==
  IF value = None THEN <<Placeholder, err>>
  ELSE <<symbol \o " = " \o FormatPrice(Val(value)) \o " USDT", err>>

\* Mutant of actualizar_historico: the figure without data comes with no error.
MutHistoricoDropsError(symbol, days, value, err) ==
  LET title == symbol \o " - ultimos " \o ToString(days) \o " dias"
  IN IF value = None
       THEN <<[data |-> <<>>, title |-> title, xaxis_title |-> "Tiempo",
               yaxis_title |-> "Close (USDT)"], "">>
       ELSE <<[data |-> <<[x |-> Val(value).xs, y |-> Val(value).ys,
                           mode |-> "lines", name |-> symbol]>>,
               title |-> title, xaxis_title |-> "Tiempo (UTC)",
               yaxis_title |-> "Close (USDT)"], err>>

\* actualizar_historico(symbol, days, _), given what get_klines returned:
\* the outputs hist-graph.figure and error-hist.children ("ultimos", "dias"
\* stand for the accented words)
actualizar_historico(symbol, days, value, err) ==
  LET title == symbol \o " - ultimos " \o ToString(days) \o " dias"
  IN IF value = None
       THEN <<[data |-> <<>>, title |-> title, xaxis_title |-> "Tiempo",
               yaxis_title |-> "Close (USDT)"], err>>
       ELSE <<[data |-> <<[x |-> Val(value).xs, y |-> Val(value).ys,
                           mode |-> "lines", name |-> symbol]>>,
               title |-> title, xaxis_title |-> "Tiempo (UTC)",
               yaxis_title |-> "Close (USDT)"], err>>

\* Mutant of actualizar_countdown: the remainder is taken after the subtraction.
MutCountdownModAfter(ticks) ==
  ToString((REFRESH_SECONDS - (ticks % REFRESH_SECONDS)) % REFRESH_SECONDS) \o "s"

\* actualizar_countdown(ticks): the output countdown.children
actualizar_countdown(ticks) ==
  LET elapsed == ticks % REFRESH_SECONDS
      remaining == REFRESH_SECONDS - elapsed
  IN ToString(remaining) \o "s"

\* -------------------------------------------------------------- steps

\* What a step hands back to the caller of get_price / get_klines: the pair
\* (value, err) or an exception (raised), with the facts of the call it ends:
\* whether it sent a request, the response, the entry c it had read, the
\* entry it stored (None: it stored nothing), and the entry its key held
\* just before the step (prev).
Ret(a, r, fetched, e, resp, prev) ==
  [fn |-> a.fn, sym |-> a.sym, days |-> a.days,
   value |-> r.value, err |-> r.err, raised |-> r.raised, stored |-> r.store,
   fetched |-> fetched, c |-> e, resp |-> resp, prev |-> prev]

NoRet ==
  [fn |-> "none", sym |-> "", days |-> 0,
   value |-> None, err |-> "", raised |-> FALSE, stored |-> None,
   fetched |-> FALSE, c |-> None, resp |-> NoResp, prev |-> None]

\* The three dcc.Interval components and their intervals in milliseconds.
Timers == {"tick-1s", "tick-price", "tick-hist"}

\* Mutant of IntervalMs: the price timer is given the period of the history.
MutIntervalMsPriceAsHist(id) ==
  IF id = "tick-1s" THEN 1000 ELSE HIST_REFRESH_SECONDS * 1000

IntervalMs(id) ==
  IF id = "tick-1s" THEN 1000
  ELSE IF id = "tick-price" THEN REFRESH_SECONDS * 1000
  ELSE HIST_REFRESH_SECONDS * 1000

\* The three dropdowns.
Dropdowns == {"symbol-dropdown", "symbol-hist", "days"}

\* The callback each input belongs to.
Callbacks == {"actualizar_precio", "actualizar_countdown", "actualizar_historico"}
CallbackOf(id) ==
  IF id \in {"tick-price", "symbol-dropdown"} THEN "actualizar_precio"
  ELSE IF id = "tick-1s" THEN "actualizar_countdown"
  ELSE "actualizar_historico"

\* The page as laid out: the time since it was loaded (ms), n_intervals=0,
\* value="BTCUSDT" and value=7, and every callback still to be called for
\* the first time.
InitPage ==
  [elapsed |-> 0,
   n_intervals |-> [id \in Timers |-> 0],
   value |-> [id \in Dropdowns |-> IF id = "days" THEN 7 ELSE "BTCUSDT"],
   initial |-> Callbacks]

\* A thread that runs no callback, and a step in which no callback returned.
NoCb == [name |-> "none", symbol |-> "", days |-> 0, started |-> 0, requests |-> 0]
NoOut == [cb |-> "none", symbol |-> "", days |-> 0, outputs |-> <<>>, requests |-> 0]

Init ==
  /\ now = 0
  /\ price_cache = EmptyDict
  /\ klines_cache = EmptyDict
  /\ pc = [t \in Threads |-> "idle"]
  /\ args = [t \in Threads |-> NoArgs]
  /\ c = [t \in Threads |-> None]
  /\ req = [t \in Threads |-> None]
  /\ pend = [t \in Threads |-> NoPend]
  /\ ret = NoRet
  /\ calls = 0
  /\ page = InitPage
  /\ cb = [t \in Threads |-> NoCb]
  /\ out = NoOut
  /\ api = "any"
  /\ late = FALSE

\* The thread is back where it started, its locals gone.
Finish(t) ==
  /\ pc' = [pc EXCEPT ![t] = "idle"]
  /\ args' = [args EXCEPT ![t] = NoArgs]
  /\ c' = [c EXCEPT ![t] = None]
  /\ req' = [req EXCEPT ![t] = None]
  /\ pend' = [pend EXCEPT ![t] = NoPend]

\* The call reads its cache and either returns the entry or sends the request.
Begin(t, a, e, ttl, hit, request) ==
  /\ pc[t] = "idle"
  /\ calls' = calls + 1
  /\ IF Fresh(e, now, ttl)
       THEN /\ ret' = Ret(a, [value |-> Some(hit), err |-> "", raised |-> FALSE,
                                 store |-> None], FALSE, e, NoResp, e)
            /\ UNCHANGED <<pc, args, c, req, pend>>
       ELSE /\ pc' = [pc EXCEPT ![t] = "http"]
            /\ args' = [args EXCEPT ![t] = a]
            /\ c' = [c EXCEPT ![t] = e]
            /\ req' = [req EXCEPT ![t] = Some(request)]
            /\ ret' = NoRet
            /\ UNCHANGED pend
  /\ UNCHANGED <<now, price_cache, klines_cache>>

\* Mutant of GetPriceBegin: the ttl is the refresh period.
MutGetPriceBeginTtlIsPeriod(t, symbol) ==
  LET e == CacheGet(price_cache, symbol)
  IN Begin(t, [fn |-> "get_price", sym |-> symbol, days |-> 0], e, REFRESH_SECONDS,
           IF e = None THEN 0 ELSE Val(e).price, PriceRequest(symbol))

\* get_price(symbol), lines 52-59: up to the request
GetPriceBegin(t, symbol) ==
  LET e == CacheGet(price_cache, symbol)
  IN Begin(t, [fn |-> "get_price", sym |-> symbol, days |-> 0], e, PRICE_TTL,
           IF e = None THEN 0 ELSE Val(e).price, PriceRequest(symbol))

\* get_klines(symbol, days), lines 77-93: up to the request
GetKlinesBegin(t, symbol, days) ==
  LET e == CacheGet(klines_cache, KlinesKey(symbol, days))
  IN Begin(t, [fn |-> "get_klines", sym |-> symbol, days |-> days], e, KLINES_TTL,
           IF e = None THEN 0 ELSE Val(e).data, KlinesRequest(symbol, days))

\* The entry the cache of a call holds for the call's key.
Current(a) ==
  IF a.fn = "get_price" THEN CacheGet(price_cache, a.sym)
  ELSE CacheGet(klines_cache, KlinesKey(a.sym, a.days))

\* The response (or the transport's exception) arrives: the call returns, or
\* has the entry built, with the clock read, and is about to store it.
Respond(t, r, resp) ==
  /\ IF r.store = None
       THEN /\ Finish(t)
            /\ ret' = Ret(args[t], r, TRUE, c[t], resp, Current(args[t]))
       ELSE /\ pc' = [pc EXCEPT ![t] = "store"]
            /\ req' = [req EXCEPT ![t] = None]
            /\ pend' = [pend EXCEPT ![t] =
                 [value |-> r.value, err |-> r.err, store |-> r.store, resp |-> resp]]
            /\ ret' = NoRet
            /\ UNCHANGED <<args, c>>
  /\ UNCHANGED <<now, price_cache, klines_cache, calls>>

\* get_price, lines 59-70
GetPriceRespond(t, resp) ==
  /\ pc[t] = "http"
  /\ args[t].fn = "get_price"
  /\ Respond(t, PriceFetch(c[t], resp, now), resp)

\* get_klines, lines 93-122
GetKlinesRespond(t, resp) ==
  /\ pc[t] = "http"
  /\ args[t].fn = "get_klines"
  /\ Respond(t, KlinesFetch(c[t], resp, now), resp)

\* Mutants of DictStore: the dictionary is rebuilt with the one entry, and
\* an entry is kept when it is not older than the new one.
MutDictStoreAlone(cache, key, e) == [k \in {key} |-> e]
MutDictStoreIfNewer(cache, key, e) ==
  IF key \in DOMAIN cache /\ cache[key].ts >= e.ts THEN cache ELSE CachePut(cache, key, e)

\* _price_cache[symbol] = {...} / _klines_cache[key] = {...}
DictStore(cache, key, e) == CachePut(cache, key, e)

StoreReturn(t) ==
  /\ ret' = Ret(args[t], [value |-> pend[t].value, err |-> pend[t].err,
                             raised |-> FALSE, store |-> pend[t].store],
                TRUE, c[t], pend[t].resp, Current(args[t]))
  /\ Finish(t)
  /\ UNCHANGED <<now, calls>>

\* get_price, lines 64-65
GetPriceStore(t) ==
  /\ pc[t] = "store"
  /\ args[t].fn = "get_price"
  /\ price_cache' = DictStore(price_cache, args[t].sym, Val(pend[t].store))
  /\ UNCHANGED klines_cache
  /\ StoreReturn(t)

\* get_klines, lines 117-118
GetKlinesStore(t) ==
  /\ pc[t] = "store"
  /\ args[t].fn = "get_klines"
  /\ klines_cache' = DictStore(klines_cache, KlinesKey(args[t].sym, args[t].days),
                               Val(pend[t].store))
  /\ UNCHANGED price_cache
  /\ StoreReturn(t)

\* time.time() moves on
Tick(d) ==
  /\ now + d <= MaxTime
  /\ now' = now + d
  /\ ret' = NoRet
  /\ UNCHANGED <<price_cache, klines_cache, pc, args, c, req, pend, calls>>

\* ------------------------------------------------------------ dashboard

\* The two outputs of the callback k, given what its call r returned.
Outputs(k, r) ==
  IF k.name = "actualizar_precio" THEN actualizar_precio(k.symbol, r.value, r.err)
  ELSE actualizar_historico(k.symbol, k.days, r.value, r.err)

\* The period of the timer of a callback less the ttl of its client, in seconds.
Slack(name) ==
  IF name = "actualizar_precio" THEN REFRESH_SECONDS - PRICE_TTL
  ELSE HIST_REFRESH_SECONDS - KLINES_TTL

\* The step of get_price or get_klines just taken is a step of the callback
\* k on thread t: the callback goes on waiting, or returns its outputs.
\* requests counts the HTTP requests the invocation has sent, started is the
\* time at which it was invoked.
CallbackStep(t, k) ==
  LET n == k.requests + (IF req[t] = None /\ req'[t] # None THEN 1 ELSE 0)
  IN IF ret'.fn = "none"
       THEN /\ cb' = [cb EXCEPT ![t] = [k EXCEPT !.requests = n]]
            /\ out' = NoOut
            /\ late' = late
       ELSE /\ cb' = [cb EXCEPT ![t] = NoCb]
            /\ out' = [cb |-> k.name, symbol |-> k.symbol, days |-> k.days,
                       outputs |-> Outputs(k, ret'), requests |-> n]
            /\ late' = (late \/ ( /\ ret'.stored # None
                                  /\ Val(ret'.stored).ts - k.started > Slack(k.name) ))

\* actualizar_precio(_, symbol), lines 215-219
PrecioBegin(t, symbol) ==
  /\ cb[t].name = "none"
  /\ GetPriceBegin(t, symbol)
  /\ CallbackStep(t, [name |-> "actualizar_precio", symbol |-> symbol, days |-> 0,
                      started |-> now, requests |-> 0])

PrecioRespond(t, resp) ==
  /\ cb[t].name = "actualizar_precio"
  /\ GetPriceRespond(t, resp)
  /\ CallbackStep(t, cb[t])
  /\ UNCHANGED <<page, api>>

PrecioStore(t) ==
  /\ cb[t].name = "actualizar_precio"
  /\ GetPriceStore(t)
  /\ CallbackStep(t, cb[t])
  /\ UNCHANGED <<page, api>>

\* actualizar_historico(symbol, days, _), lines 237-256
HistoricoBegin(t, symbol, days) ==
  /\ cb[t].name = "none"
  /\ GetKlinesBegin(t, symbol, days)
  /\ CallbackStep(t, [name |-> "actualizar_historico", symbol |-> symbol,
                      days |-> days, started |-> now, requests |-> 0])

HistoricoRespond(t, resp) ==
  /\ cb[t].name = "actualizar_historico"
  /\ GetKlinesRespond(t, resp)
  /\ CallbackStep(t, cb[t])
  /\ UNCHANGED <<page, api>>

HistoricoStore(t) ==
  /\ cb[t].name = "actualizar_historico"
  /\ GetKlinesStore(t)
  /\ CallbackStep(t, cb[t])
  /\ UNCHANGED <<page, api>>

\* actualizar_countdown(ticks), lines 225-228: it calls neither client
Countdown(ticks) ==
  /\ out' = [cb |-> "actualizar_countdown", symbol |-> "", days |-> 0,
             outputs |-> <<actualizar_countdown(ticks)>>, requests |-> 0]
  /\ ret' = NoRet
  /\ UNCHANGED <<now, price_cache, klines_cache, pc, args, c, req, pend, calls, cb, late>>

\* The page becomes p and, one of the inputs of the callback having changed,
\* the callback is called with the values p holds for its inputs.
Invoke(t, name, p) ==
  /\ page' = p
  /\ api' = api
  /\ IF name = "actualizar_precio"
       THEN PrecioBegin(t, p.value["symbol-dropdown"])
     ELSE IF name = "actualizar_historico"
       THEN HistoricoBegin(t, p.value["symbol-hist"], p.value["days"])
     ELSE Countdown(p.n_intervals["tick-1s"])

\* The page has been loaded: the callback is called for the first time.
Load(t, name) ==
  /\ name \in page.initial
  /\ Invoke(t, name, [page EXCEPT !.initial = @ \ {name}])

\* A dcc.Interval fires when a further interval of its has elapsed.
Pending(id) == page.n_intervals[id] < page.elapsed \div IntervalMs(id)

TimerFires(t, id) ==
  /\ Pending(id)
  /\ CallbackOf(id) \notin page.initial
  /\ Invoke(t, CallbackOf(id), [page EXCEPT !.n_intervals[id] = @ + 1])

\* The user picks another value in a dropdown.
Select(t, id, v) ==
  /\ v # page.value[id]
  /\ CallbackOf(id) \notin page.initial
  /\ Invoke(t, CallbackOf(id), [page EXCEPT !.value[id] = v])

\* No first call and no firing of these timers is outstanding.
Settled(ids) == \A id \in ids : ~Pending(id) /\ CallbackOf(id) \notin page.initial

\* d seconds pass, in the browser and on the server, up to max seconds.
Elapse(d, max) ==
  /\ now + d <= max
  /\ now' = now + d
  /\ page' = [page EXCEPT !.elapsed = @ + 1000 * d]
  /\ ret' = NoRet
  /\ out' = NoOut
  /\ UNCHANGED <<price_cache, klines_cache, pc, args, c, req, pend, calls, cb, api, late>>

\* The response is one the remote API gives in its present state: any, or,
\* once it answers successfully, status 200 with a payload that parses.
Answers(fn, resp) ==
  api = "ok" => (resp.exc = "" /\ resp.status = 200 /\ PayloadOk(fn, resp))

\* From now on the remote API answers every request successfully.
Recover ==
  /\ api = "any"
  /\ api' = "ok"
  /\ ret' = NoRet
  /\ out' = NoOut
  /\ UNCHANGED <<now, price_cache, klines_cache, pc, args, c, req, pend, calls, page, cb, late>>

\* ------------------------------------------------------- specifications

\* Calls made one after another: one thread, each call run to its return
\* before the next starts. The clock read and the store are one statement
\* (lines 64, 117): the clock does not move between them.
Next ==
  \/ \E s \in Symbols : calls < MaxCalls /\ GetPriceBegin(1, s) /\ UNCHANGED dash
  \/ \E resp \in PriceResponses : GetPriceRespond(1, resp) /\ UNCHANGED dash
  \/ GetPriceStore(1) /\ UNCHANGED dash
  \/ \E s \in Symbols, d \in Days : calls < MaxCalls /\ GetKlinesBegin(1, s, d) /\ UNCHANGED dash
  \/ \E resp \in KlinesResponses : GetKlinesRespond(1, resp) /\ UNCHANGED dash
  \/ GetKlinesStore(1) /\ UNCHANGED dash
  \/ \E d \in ClockSteps : pc[1] # "store" /\ Tick(d) /\ UNCHANGED dash

Spec == Init /\ [][Next]_vars

\* Calls that overlap: every thread of the server runs callbacks.
NextThreads ==
  \/ \E t \in Threads, s \in Symbols : calls < MaxOverlap /\ GetPriceBegin(t, s) /\ UNCHANGED dash
  \/ \E t \in Threads, resp \in OverlapPriceResponses :
        GetPriceRespond(t, resp) /\ UNCHANGED dash
  \/ \E t \in Threads : GetPriceStore(t) /\ UNCHANGED dash
  \/ \E t \in Threads, s \in Symbols, d \in Days :
        calls < MaxOverlap /\ GetKlinesBegin(t, s, d) /\ UNCHANGED dash
  \/ \E t \in Threads, resp \in OverlapKlinesResponses :
        GetKlinesRespond(t, resp) /\ UNCHANGED dash
  \/ \E t \in Threads : GetKlinesStore(t) /\ UNCHANGED dash
  \/ \E d \in TimerSteps : Tick(d) /\ UNCHANGED dash

SpecThreads == Init /\ [][NextThreads]_vars

\* The period mapping alone: get_klines called for every period 1..MaxDays.
NextMap ==
  \/ \E s \in Symbols, d \in 1..MaxDays : calls < 1 /\ GetKlinesBegin(1, s, d) /\ UNCHANGED dash
  \/ \E resp \in KlinesResponses : GetKlinesRespond(1, resp) /\ UNCHANGED dash
  \/ GetKlinesStore(1) /\ UNCHANGED dash

SpecMap == Init /\ [][NextMap]_vars

\* Overlapping calls answered by a remote API that answers each request as
\* asked, or not at all.
NextKeys ==
  \/ \E t \in Threads, s \in Symbols : calls < MaxOverlap /\ GetPriceBegin(t, s) /\ UNCHANGED dash
  \/ \E t \in Threads :
        /\ req[t] # None
        /\ \E resp \in ServerResponses(Val(req[t])) : GetPriceRespond(t, resp)
        /\ UNCHANGED dash
  \/ \E t \in Threads : GetPriceStore(t) /\ UNCHANGED dash
  \/ \E t \in Threads, s \in Symbols, d \in Days :
        calls < MaxOverlap /\ GetKlinesBegin(t, s, d) /\ UNCHANGED dash
  \/ \E t \in Threads :
        /\ req[t] # None
        /\ \E resp \in ServerResponses(Val(req[t])) : GetKlinesRespond(t, resp)
        /\ UNCHANGED dash
  \/ \E t \in Threads : GetKlinesStore(t) /\ UNCHANGED dash
  \/ \E d \in TimerSteps : Tick(d) /\ UNCHANGED dash

SpecKeys == Init /\ [][NextKeys]_vars

\* The first tab of one client, second by second: the 1-second timer with the
\* countdown and the price timer with actualizar_precio, each firing exactly
\* when its interval has elapsed, the selection left as it is.
NextTimers ==
  \/ \E name \in {"actualizar_precio", "actualizar_countdown"} : Load(1, name)
  \/ \E id \in {"tick-1s", "tick-price"} : TimerFires(1, id)
  \/ \E resp \in TimerPriceResponses : PrecioRespond(1, resp)
  \/ PrecioStore(1)
  \/ \E d \in SecondSteps : Settled({"tick-1s", "tick-price"}) /\ Elapse(d, MaxSeconds)

SpecTimers == Init /\ [][NextTimers]_vars

\* The callbacks of one client, one at a time: first calls, timer firings and
\* changes of selection, the timers firing when or after their interval has
\* elapsed.
NextCallbacks ==
  \/ \E name \in {"actualizar_precio", "actualizar_historico"} :
        calls < MaxInvocations /\ Load(1, name)
  \/ \E id \in {"tick-price", "tick-hist"} :
        calls < MaxInvocations /\ TimerFires(1, id)
  \/ \E id \in {"symbol-dropdown", "symbol-hist"}, s \in Symbols :
        calls < MaxInvocations /\ Select(1, id, s)
  \/ \E d \in Days : calls < MaxInvocations /\ Select(1, "days", d)
  \/ \E resp \in PriceResponses : PrecioRespond(1, resp)
  \/ PrecioStore(1)
  \/ \E resp \in KlinesResponses : HistoricoRespond(1, resp)
  \/ HistoricoStore(1)
  \/ \E d \in TimerSteps : pc[1] # "store" /\ Elapse(d, MaxTime)

SpecCallbacks == Init /\ [][NextCallbacks]_vars

\* The two refresh timers of one client with the selection left as it is,
\* each firing exactly when its interval has elapsed, the two callbacks
\* running each on a thread of its own; the remote API may at some point
\* start to answer every request successfully.
ThreadOf(name) == IF name = "actualizar_precio" THEN 1 ELSE 2

NextSchedule ==
  \/ \E name \in {"actualizar_precio", "actualizar_historico"} :
        Load(ThreadOf(name), name)
  \/ \E id \in {"tick-price", "tick-hist"} : TimerFires(ThreadOf(CallbackOf(id)), id)
  \/ \E resp \in TimerPriceResponses :
        Answers("get_price", resp) /\ PrecioRespond(1, resp)
  \/ PrecioStore(1)
  \/ \E resp \in TimerKlinesResponses :
        Answers("get_klines", resp) /\ HistoricoRespond(2, resp)
  \/ HistoricoStore(2)
  \/ \E d \in ScheduleSteps :
        /\ Settled({"tick-price", "tick-hist"})
        /\ \A t \in Threads : pc[t] # "store"
        /\ Elapse(d, MaxSchedule)
  \/ Recover

SpecSchedule == Init /\ [][NextSchedule]_vars

\* The same, going on as long as something can happen: time passes, the
\* timers fire, requests are answered and threads run.
SpecRecovery == Init /\ [][NextSchedule]_vars /\ WF_vars(NextSchedule)

\* ------------------------------------------------------------- claims

\* The step just taken returned from get_price or get_klines.
IsReturn == ret.fn # "none"

\* The ttl of the function that returned: 20 s for prices, 120 s for klines.
TtlOf(fn) == IF fn = "get_price" THEN 20 ELSE 120

\* The value held by a cache entry of the function's cache.
EntryValue(fn, e) == IF fn = "get_price" THEN Val(e).price ELSE Val(e).data

\* The cache keys that hold an entry, for the function's cache.
StoredKeys(fn) == IF fn = "get_price" THEN DOMAIN price_cache ELSE DOMAIN klines_cache
KeyOf(r) == IF r.fn = "get_price" THEN r.sym ELSE <<r.sym, r.days>>

\* The call attempted a fetch and the fetch failed: a transport exception, a
\* status other than 200, an unparsable payload, or an empty klines payload.
FetchFailed(r) ==
  /\ r.fetched
  /\ \/ r.resp.exc # ""
     \/ r.resp.status # 200
     \/ ~PayloadOk(r.fn, r.resp)

FetchSucceeded(r) ==
  r.fetched /\ r.resp.exc = "" /\ r.resp.status = 200 /\ PayloadOk(r.fn, r.resp)

\* The value a successful response carries.
FetchedValue(fn, resp) ==
  IF fn = "get_price" THEN FloatOf(resp.json.price)
  ELSE [xs |-> ParseXs(resp.json), ys |-> ParseYs(resp.json)]

\* C1: whenever a call attempts a fetch that fails, in any of the four ways,
\* while an entry for its key is stored, it returns that entry's value with a
\* non-empty error. The code does so only for exceptions: a status other
\* than 200 and an empty klines list return no value.
C1_StaleFallbackOnEveryFailure ==
  (IsReturn /\ FetchFailed(ret) /\ ret.c # None)
    => /\ ~ret.raised
       /\ ret.value = Some(EntryValue(ret.fn, ret.c))
       /\ ret.err # ""

\* The step starts a call with arguments a: it returns from the cache at
\* once, or a thread leaves with the request sent.
StartsCall(a) ==
  /\ calls' = calls + 1
  /\ \/ ret'.fn = a.fn /\ ret'.sym = a.sym /\ ret'.days = a.days
     \/ \E t \in Threads : pc[t] = "idle" /\ pc'[t] = "http" /\ args'[t] = a

\* The step returns v from the cache: empty error, no request, caches untouched.
HitStep(v) ==
  /\ ret'.value = Some(v)
  /\ ret'.err = ""
  /\ ~ret'.raised
  /\ ~ret'.fetched
  /\ req' = req
  /\ pc' = pc
  /\ price_cache' = price_cache
  /\ klines_cache' = klines_cache

\* C2: a call made while the entry of its key is younger than the ttl (20 s
\* for prices, 120 s for klines) returns exactly the stored value with an
\* empty error, sends no HTTP request and leaves the entry unchanged.
C2_HitWithinTtl ==
  [][ /\ \A s \in Symbols :
           ( /\ StartsCall([fn |-> "get_price", sym |-> s, days |-> 0])
             /\ s \in DOMAIN price_cache
             /\ now - price_cache[s].ts < 20 )
           => HitStep(price_cache[s].price)
      /\ \A s \in Symbols, d \in Days :
           ( /\ StartsCall([fn |-> "get_klines", sym |-> s, days |-> d])
             /\ <<s, d>> \in DOMAIN klines_cache
             /\ now - klines_cache[<<s, d>>].ts < 120 )
           => HitStep(klines_cache[<<s, d>>].data)
    ]_vars

\* A klines entry that has aged, but less than its ttl, was returned from the cache.
C2_Witness ==
  /\ ret.fn = "get_klines"
  /\ ~ret.fetched
  /\ ret.c # None
  /\ now - Val(ret.c).ts > 0
  /\ ret.value = Some(Val(ret.c).data)

\* C3: a result that carries a value with an empty error is an entry younger
\* than the ttl, returned without a fetch, or the value just fetched by that
\* call; a result that carries a value with a non-empty error is the prior
\* entry of a call whose own fetch failed, the entry being at least ttl old.
C3_Freshness ==
  (IsReturn /\ ret.value # None)
    => IF ret.err = ""
         THEN \/ /\ ~ret.fetched
                 /\ ret.c # None
                 /\ ret.value = Some(EntryValue(ret.fn, ret.c))
                 /\ now - Val(ret.c).ts < TtlOf(ret.fn)
              \/ /\ FetchSucceeded(ret)
                 /\ ret.value = Some(FetchedValue(ret.fn, ret.resp))
         ELSE /\ FetchFailed(ret)
              /\ ret.c # None
              /\ ret.value = Some(EntryValue(ret.fn, ret.c))
              /\ now - Val(ret.c).ts >= TtlOf(ret.fn)

\* A price that is exactly ttl old was served after the fetch failed.
C3_Witness ==
  /\ ret.fn = "get_price"
  /\ ret.value # None
  /\ ret.err # ""
  /\ now - Val(ret.c).ts = 20

\* C4: a call whose key has no entry and whose fetch fails returns no value
\* and a non-empty error, and its key has no entry afterwards.
C4_FailureWithoutEntry ==
  (IsReturn /\ FetchFailed(ret) /\ ret.c = None)
    => /\ ~ret.raised
       /\ ret.value = None
       /\ ret.err # ""
       /\ KeyOf(ret) \notin StoredKeys(ret.fn)

\* A price call with nothing stored got a payload without a usable price.
C4_Witness ==
  /\ ret.fn = "get_price"
  /\ FetchFailed(ret)
  /\ ret.resp.status = 200
  /\ ret.c = None
  /\ ret.value = None

\* The step returns from a fetch that succeeded, having put the fetched
\* value, stamped with the current time, at its own key and nowhere else.
StoreStep ==
  /\ FetchSucceeded(ret')
  /\ ret'.value = Some(FetchedValue(ret'.fn, ret'.resp))
  /\ IF ret'.fn = "get_price"
       THEN /\ klines_cache' = klines_cache
            /\ DOMAIN price_cache' = (DOMAIN price_cache) \cup {ret'.sym}
            /\ \A k \in (DOMAIN price_cache) \ {ret'.sym} :
                 price_cache'[k] = price_cache[k]
            /\ price_cache'[ret'.sym] =
                 [ts |-> now', price |-> FetchedValue(ret'.fn, ret'.resp)]
       ELSE /\ price_cache' = price_cache
            /\ DOMAIN klines_cache' = (DOMAIN klines_cache) \cup {KeyOf(ret')}
            /\ \A k \in (DOMAIN klines_cache) \ {KeyOf(ret')} :
                 klines_cache'[k] = klines_cache[k]
            /\ klines_cache'[KeyOf(ret')] =
                 [ts |-> now', data |-> FetchedValue(ret'.fn, ret'.resp)]

\* C5: the caches are written only by a successful fetch: a step that is not
\* the return of a successful fetch (a return from the cache, a failed
\* fetch, a klines payload that fails part-way) leaves both caches as they
\* were; the return of a successful fetch replaces exactly the entry of its
\* own key with the fetched value and the current time.
C5_WrittenOnlyBySuccess ==
  [][ IF ret'.fn # "none" /\ FetchSucceeded(ret')
        THEN StoreStep
        ELSE price_cache' = price_cache /\ klines_cache' = klines_cache
    ]_vars

\* A klines payload whose second record does not parse arrived while an
\* entry was stored, and the entry is still there.
C5_Witness ==
  /\ ret.fn = "get_klines"
  /\ ret.fetched
  /\ ret.resp.decodes
  /\ Len(ret.resp.json) = 2
  /\ CloseError(ret.resp.json[1]) = ""
  /\ CloseError(ret.resp.json[2]) # ""
  /\ ret.c # None
  /\ CacheGet(klines_cache, KeyOf(ret)) = ret.c

NonEmptySeries(data) == Len(data.xs) >= 1 /\ Len(data.xs) = Len(data.ys)

\* C6: every entry of _klines_cache holds a series of at least one point,
\* every value get_klines returns is a non-empty series with as many
\* timestamps as closes, and a 200 response with an empty list yields a
\* failure (a non-empty error), never a successful empty series.
C6_NonEmptySeries ==
  /\ \A k \in DOMAIN klines_cache : NonEmptySeries(klines_cache[k].data)
  /\ (ret.fn = "get_klines" /\ ret.value # None) => NonEmptySeries(Val(ret.value))
  /\ ( /\ ret.fn = "get_klines"
       /\ ret.fetched
       /\ ret.resp.exc = ""
       /\ ret.resp.status = 200
       /\ ret.resp.decodes
       /\ Len(ret.resp.json) = 0 )
     => ret.err # ""

\* A 200 response with an empty list arrived while an entry was stored.
C6_Witness ==
  /\ ret.fn = "get_klines"
  /\ ret.fetched
  /\ ret.resp.status = 200
  /\ ret.resp.decodes
  /\ Len(ret.resp.json) = 0
  /\ ret.c # None

\* The outputs of the callback that made the call.
CallbackOutputs(r) ==
  IF r.fn = "get_price" THEN actualizar_precio(r.sym, r.value, r.err)
  ELSE actualizar_historico(r.sym, r.days, r.value, r.err)

\* C7: whatever the HTTP request produces, get_price and get_klines return a
\* pair (value, error) and raise nothing, the error is non-empty whenever
\* the value is None, and the callback returns its two outputs.
C7_NoFailureEscapes ==
  IsReturn
    => /\ ~ret.raised
       /\ (ret.value = None => ret.err # "")
       /\ Len(CallbackOutputs(ret)) = 2
       /\ CallbackOutputs(ret)[2] = ret.err

\* A klines payload with a record that does not parse arrived, nothing stored.
C7_Witness ==
  /\ ret.fn = "get_klines"
  /\ ret.fetched
  /\ ret.resp.status = 200
  /\ ret.resp.decodes
  /\ Len(ret.resp.json) > 0
  /\ ~PayloadOk(ret.fn, ret.resp)
  /\ ret.value = None

\* C8: with calls overlapping in any way, right after a successful fetch has
\* stored its entry the cache holds that entry for its key, and an entry
\* changes only in the step in which a successful fetch for exactly that key
\* stores: so the entry left when all calls are done is that of the last
\* store, failed calls alter nothing, and other keys are not affected.
C8_LastWriteWins ==
  /\ []((IsReturn /\ ret.stored # None) => Current(ret) = ret.stored)
  /\ [][ /\ \A s \in Symbols :
              CacheGet(price_cache', s) # CacheGet(price_cache, s)
                => /\ ret'.fn = "get_price"
                   /\ ret'.sym = s
                   /\ FetchSucceeded(ret')
                   /\ ret'.stored # None
         /\ \A s \in Symbols, d \in Days :
              CacheGet(klines_cache', <<s, d>>) # CacheGet(klines_cache, <<s, d>>)
                => /\ ret'.fn = "get_klines"
                   /\ KeyOf(ret') = <<s, d>>
                   /\ FetchSucceeded(ret')
                   /\ ret'.stored # None
       ]_vars

\* A call stored over an entry that an overlapping call had stored after this
\* call had read the cache, and the older reading replaced the newer.
C8_Witness ==
  /\ ret.fn = "get_price"
  /\ ret.stored # None
  /\ ret.prev # None
  /\ ret.prev # ret.c
  /\ Val(ret.stored).ts < Val(ret.prev).ts
  /\ Current(ret) = ret.stored

\* C9 as claimed: the entry of a symbol is never overwritten by a reading
\* obtained earlier than the one it replaces, and its timestamp never
\* decreases from one write to the next.
C9_NeverSupersededByOlder ==
  (ret.fn = "get_price" /\ ret.stored # None /\ ret.prev # None)
    => Val(ret.stored).ts >= Val(ret.prev).ts

\* C9 as amended: a store that replaces the very entry its call had read (no
\* other call has stored for the symbol in between) never lowers the
\* timestamp; a store over an entry written by an overlapping call may.
C9_SupersededByNewerUnlessOverlap ==
  (ret.fn = "get_price" /\ ret.stored # None /\ ret.prev # None /\ ret.prev = ret.c)
    => Val(ret.stored).ts >= Val(ret.prev).ts

\* An entry read by a call was replaced by that call's later reading.
C9_Witness ==
  /\ ret.fn = "get_price"
  /\ ret.stored # None
  /\ ret.prev # None
  /\ ret.prev = ret.c
  /\ Val(ret.stored).ts > Val(ret.prev).ts

\* C10: the request of get_klines for a period of days asks for interval "1h"
\* and limit min(1000, days*24) when days <= 7, and for interval "4h" and
\* limit min(1000, days*6) when days > 7; the limit never exceeds 1000, and
\* the periods 1, 7 and 30 ask for ("1h", 24), ("1h", 168) and ("4h", 180).
C10_PeriodMapping ==
  \A t \in Threads :
    (pc[t] = "http" /\ args[t].fn = "get_klines")
      => LET d == args[t].days
             p == Val(req[t]).params
         IN /\ d <= 7 => (p.interval = "1h" /\ p.limit = Min(1000, d * 24))
            /\ d > 7 => (p.interval = "4h" /\ p.limit = Min(1000, d * 6))
            /\ p.limit <= 1000
            /\ d = 1 => <<p.interval, p.limit>> = <<"1h", 24>>
            /\ d = 7 => <<p.interval, p.limit>> = <<"1h", 168>>
            /\ d = 30 => <<p.interval, p.limit>> = <<"4h", 180>>

\* A period long enough for days*6 to pass 1000 was requested with limit 1000.
C10_Witness ==
  \E t \in Threads :
    /\ pc[t] = "http"
    /\ args[t].fn = "get_klines"
    /\ args[t].days * 6 > 1000
    /\ Val(req[t]).params.limit = 1000

\* C11: for every tick count t, actualizar_countdown(t) displays
\* 60 - (t mod 60) followed by "s"; the number lies in 1..60, is 60 exactly
\* when t is a multiple of 60, and the display for t + 60 is the same.
C11_CountdownRange ==
  out.cb = "actualizar_countdown"
    => LET t == page.n_intervals["tick-1s"]
       IN /\ \E k \in 1..60 :
               /\ out.outputs = <<ToString(k) \o "s">>
               /\ k = 60 - (t % 60)
               /\ (k = 60 <=> t % 60 = 0)
          /\ actualizar_countdown(t + 60) = out.outputs[1]

\* The countdown was computed for the second multiple of 60.
C11_Witness ==
  /\ out.cb = "actualizar_countdown"
  /\ page.n_intervals["tick-1s"] = 120
  /\ out.outputs = <<"60s">>

\* The call that returned in the last step got status 200 and an empty list.
EmptyListFetched ==
  /\ ret.fn = "get_klines"
  /\ ret.fetched
  /\ ret.resp.exc = ""
  /\ ret.resp.status = 200
  /\ ret.resp.decodes
  /\ Len(ret.resp.json) = 0

\* C12: whenever the fetch made by actualizar_historico gets status 200 with
\* an empty list, the callback returns a figure with no data trace and the
\* error "Sin datos de klines.", whether or not an entry is stored for the key.
C12_EmptyHistoryIsFailure ==
  (out.cb = "actualizar_historico" /\ EmptyListFetched)
    => /\ Len(out.outputs) = 2
       /\ out.outputs[1].data = <<>>
       /\ out.outputs[2] = "Sin datos de klines."
       /\ CacheGet(klines_cache, <<out.symbol, out.days>>) = ret.c

\* The empty list arrived while an expired entry was stored for the key.
C12_Witness ==
  /\ out.cb = "actualizar_historico"
  /\ EmptyListFetched
  /\ ret.c # None
  /\ out.outputs[1].data = <<>>

\* The text of a price as "{price:,.6f}" writes it, for the modelled prices.
PriceText(price) == IF price = 1500000 THEN "1.500000" ELSE "2.000000"

\* C13: actualizar_precio calls get_price for the selected symbol; it returns
\* the placeholder exactly when get_price returned no value, and then the
\* error output is the non-empty error of get_price; otherwise the text is
\* "<symbol> = <value with six decimals> USDT" for the selected symbol and
\* the value returned, and the error output is the error of get_price, which
\* is empty when the fetch succeeded or the entry was within its ttl. The
\* price 1234.0005 for BTCUSDT reads "BTCUSDT = 1,234.000500 USDT" (a price
\* within 32-bit millionths, written as the 67,890.123456 of the example is).
C13_PriceViewBinding ==
  out.cb = "actualizar_precio"
    => /\ actualizar_precio("BTCUSDT", Some(1234000500), "")
            = <<"BTCUSDT = 1,234.000500 USDT", "">>
       /\ ret.fn = "get_price"
       /\ ret.sym = out.symbol
       /\ out.symbol = page.value["symbol-dropdown"]
       /\ Len(out.outputs) = 2
       /\ out.outputs[1] = Placeholder <=> ret.value = None
       /\ out.outputs[2] = ret.err
       /\ ret.value = None => ret.err # ""
       /\ ret.value # None =>
             out.outputs[1] = out.symbol \o " = " \o PriceText(Val(ret.value)) \o " USDT"
       /\ (FetchSucceeded(ret) \/ ~ret.fetched) => out.outputs[2] = ""

\* After another symbol was selected its fetch failed with no entry stored:
\* the placeholder is shown with the error of the status.
C13_Witness ==
  /\ out.cb = "actualizar_precio"
  /\ out.symbol = "ETHUSDT"
  /\ ret.resp.status = 500
  /\ out.outputs = <<Placeholder, "Binance HTTP 500: oops">>

\* C14: an invocation of actualizar_precio or actualizar_historico sends at
\* most one HTTP request; a request is sent only in the step that invokes a
\* callback, and it is the request for the selection of that moment (so a
\* failed request is followed by no other until a callback is invoked
\* again); _price_cache changes only when actualizar_precio returns and
\* _klines_cache only when actualizar_historico returns.
C14_OneFetchPerTrigger ==
  /\ [](\A t \in Threads : cb[t].requests <= 1)
  /\ [](out.requests <= 1)
  /\ [][ /\ \A t \in Threads :
              (req'[t] # None /\ req'[t] # req[t])
                => /\ cb[t].name = "none"
                   /\ cb'[t].name # "none"
                   /\ cb'[t].requests = 1
                   /\ cb'[t].name = "actualizar_precio" =>
                         Val(req'[t]) = [url |-> "/api/v3/ticker/price",
                                         params |-> [symbol |-> page'.value["symbol-dropdown"]]]
                   /\ cb'[t].name = "actualizar_historico" =>
                         /\ Val(req'[t]).url = "/api/v3/klines"
                         /\ Val(req'[t]).params.symbol = page'.value["symbol-hist"]
                         /\ <<Val(req'[t]).params.interval, Val(req'[t]).params.limit>>
                              = IF page'.value["days"] = 7 THEN <<"1h", 168>> ELSE <<"4h", 180>>
         /\ price_cache' # price_cache
                => out'.cb = "actualizar_precio" /\ klines_cache' = klines_cache
         /\ klines_cache' # klines_cache
                => out'.cb = "actualizar_historico" /\ price_cache' = price_cache
        ]_vars

\* The request made when another symbol was selected failed, and the callback
\* returned having sent that one request.
C14_Witness ==
  /\ out.cb = "actualizar_precio"
  /\ out.symbol = "ETHUSDT"
  /\ out.requests = 1
  /\ FetchFailed(ret)
  /\ \A t \in Threads : req[t] = None

\* The price and the series the remote API gives for a symbol and a period.
PriceFor(s) == IF s = "BTCUSDT" THEN 1500000 ELSE 2000000

SeriesFor(s, d, data) ==
  /\ Len(data.xs) = Len(data.ys)
  /\ \A i \in 1..Len(data.xs) :
       /\ data.ys[i] = PriceFor(s)
       /\ data.xs[i] = [sec |-> i * (IF d <= 7 THEN 3600 ELSE 14400), usec |-> 0]

\* C15: with the remote API answering each request as asked, every request
\* in flight is the one for the arguments of its call; every entry of
\* _price_cache holds the price of its symbol and every entry of
\* _klines_cache the series of its symbol and period; every value returned
\* is that of the symbol (and period) asked for, so a series fetched for one
\* period is not served for another; and a step changes no entry but that of
\* the key of the call that returns in it.
C15_KeyIsolation ==
  /\ [](\A t \in Threads :
          req[t] # None =>
            /\ Val(req[t]).params.symbol = args[t].sym
            /\ args[t].fn = "get_price" => Val(req[t]).url = "/api/v3/ticker/price"
            /\ args[t].fn = "get_klines" =>
                  /\ Val(req[t]).url = "/api/v3/klines"
                  /\ Val(req[t]).params.interval = (IF args[t].days <= 7 THEN "1h" ELSE "4h"))
  /\ [](\A s \in DOMAIN price_cache : price_cache[s].price = PriceFor(s))
  /\ [](\A k \in DOMAIN klines_cache :
          k \in Symbols \X Days /\ SeriesFor(k[1], k[2], klines_cache[k].data))
  /\ []((ret.fn = "get_price" /\ ret.value # None) => Val(ret.value) = PriceFor(ret.sym))
  /\ []((ret.fn = "get_klines" /\ ret.value # None)
          => SeriesFor(ret.sym, ret.days, Val(ret.value)))
  /\ [][ /\ \A s \in Symbols :
              CacheGet(price_cache', s) # CacheGet(price_cache, s)
                => ret'.fn = "get_price" /\ ret'.sym = s
         /\ \A s \in Symbols, d \in Days :
              CacheGet(klines_cache', <<s, d>>) # CacheGet(klines_cache, <<s, d>>)
                => ret'.fn = "get_klines" /\ ret'.sym = s /\ ret'.days = d
       ]_vars

\* With the series of the 7 days of a symbol stored and within its ttl, the
\* call for the 30 days of that symbol fetched, and returned the 4-hour series.
C15_Witness ==
  /\ ret.fn = "get_klines"
  /\ ret.days = 30
  /\ ret.fetched
  /\ ret.value # None
  /\ <<ret.sym, 7>> \in DOMAIN klines_cache
  /\ now - klines_cache[<<ret.sym, 7>>].ts < 120
  /\ Val(ret.value).xs[1].sec = 14400

\* The timer fires in the step.
TickStep(id) == page'.n_intervals[id] = page.n_intervals[id] + 1

\* The entries of the selected keys.
SelectedPrice == CacheGet(price_cache, page.value["symbol-dropdown"])
SelectedKlines ==
  CacheGet(klines_cache, <<page.value["symbol-hist"], page.value["days"]>>)

\* The entry is absent or at least ttl seconds old.
Expired(e, ttl) == e = None \/ now - Val(e).ts >= ttl

\* A thread sends a request in the step.
Attempts == \E t \in Threads : req[t] = None /\ req'[t] # None

\* The callback is invoked in the step: for the first time, or by its timer.
Invoked(name) ==
  \/ name \in page.initial /\ name \notin page'.initial
  \/ \E id \in Timers : CallbackOf(id) = name /\ TickStep(id)

\* The callback returned a value its call had just fetched, with no error.
FreshReturn(name) ==
  /\ out.cb = name
  /\ FetchSucceeded(ret)
  /\ ret.value = Some(FetchedValue(ret.fn, ret.resp))
  /\ out.outputs[2] = ""

\* C16: a return that serves a stored value with an error leaves both caches
\* as they were (the timestamp is not refreshed); an invocation that finds
\* the entry of its key at least ttl old sends a request; and, the timers
\* firing on and every request being answered, once the remote API answers
\* every request successfully (with two firings of the timer still to come)
\* the callback eventually returns a value just fetched with an empty error.
C16_Recovery ==
  /\ [][ /\ (ret'.fn # "none" /\ ret'.value # None /\ ret'.err # "")
              => (price_cache' = price_cache /\ klines_cache' = klines_cache)
         /\ (Invoked("actualizar_precio") /\ SelectedPrice # None
               /\ Expired(SelectedPrice, 20)) => Attempts
         /\ (Invoked("actualizar_historico") /\ SelectedKlines # None
               /\ Expired(SelectedKlines, 120)) => Attempts
       ]_vars
  /\ (api = "ok" /\ now + 2 * REFRESH_SECONDS <= MaxSchedule)
       ~> FreshReturn("actualizar_precio")
  /\ (api = "ok" /\ now + 2 * HIST_REFRESH_SECONDS <= MaxSchedule)
       ~> FreshReturn("actualizar_historico")

\* After the remote API recovered, actualizar_precio returned a fetched price
\* in place of an entry two periods old, which a failed fetch had served.
C16_Witness ==
  /\ api = "ok"
  /\ FreshReturn("actualizar_precio")
  /\ ret.c # None
  /\ now - Val(ret.c).ts >= 2 * REFRESH_SECONDS

\* The seconds from the present to the next instant, after the present, at
\* which a whole number of 60-second periods has passed since the page was
\* loaded.
SecondsToNextPrice == 60 - ((page.elapsed \div 1000) % 60)

\* The price timer fires at the present instant: it is due, or its count of
\* firings is that of the periods that have passed (the first call included).
PriceTimerFiresNow ==
  \/ Pending("tick-price")
  \/ page.n_intervals["tick-price"] * 60000 = page.elapsed

\* C17: with the two timers of the first tab started together and firing
\* exactly on their periods, the price timer fires when a whole number of
\* minutes has passed; the countdown shown at each firing of the 1-second
\* timer is the number of seconds to the next firing of the price timer, and
\* is 60 exactly at the instants at which the price timer fires; the
\* countdown callback sends no request and changes no cache.
C17_CountdownMatchesSchedule ==
  [][ /\ TickStep("tick-price")
           => page'.elapsed = page'.n_intervals["tick-price"] * 60000
      /\ out'.cb = "actualizar_countdown"
           => /\ page'.elapsed = page'.n_intervals["tick-1s"] * 1000
              /\ out'.outputs = <<ToString(SecondsToNextPrice') \o "s">>
              /\ (out'.outputs = <<"60s">>) <=> PriceTimerFiresNow'
              /\ req' = req
              /\ pc' = pc
              /\ calls' = calls
              /\ price_cache' = price_cache
              /\ klines_cache' = klines_cache
    ]_vars

\* One minute after the page was loaded the price timer has fired, with a
\* price stored, and the countdown shows 60 again.
C17_Witness ==
  /\ out.cb = "actualizar_countdown"
  /\ out.outputs = <<"60s">>
  /\ page.elapsed = 60000
  /\ page.n_intervals["tick-price"] = 1
  /\ price_cache # EmptyDict

\* C18 as claimed: with the timers of one client as the only triggers and
\* the selection unchanged, every firing of the price timer finds the entry
\* of the selected symbol absent or at least 20 s old, every firing of the
\* history timer finds the entry of the selected symbol and period absent or
\* at least 120 s old, and the callback it invokes sends a request.
C18_EveryTickFetches ==
  [][ /\ TickStep("tick-price") => (Expired(SelectedPrice, 20) /\ Attempts)
      /\ TickStep("tick-hist") => (Expired(SelectedKlines, 120) /\ Attempts)
    ]_vars

\* C18 as amended: the same, as long as no fetch has stored its entry more
\* than 40 s (prices) or 180 s (history), the period less the ttl, after the
\* firing that invoked its callback.
C18_EveryTickFetchesUnlessLate ==
  [][ /\ (TickStep("tick-price") /\ ~late) => (Expired(SelectedPrice, 20) /\ Attempts)
      /\ (TickStep("tick-hist") /\ ~late) => (Expired(SelectedKlines, 120) /\ Attempts)
    ]_vars

\* Both timers have just fired with entries stored for the selection, no
\* fetch having been late, and both callbacks have sent their requests.
C18_Witness ==
  /\ ~late
  /\ page.n_intervals["tick-price"] = 5
  /\ page.n_intervals["tick-hist"] = 1
  /\ \A t \in {1, 2} :
       /\ pc[t] = "http"
       /\ c[t] # None
       /\ cb[t].started = now

====
